---- MODULE Spec2Model ----
(***************************************************************************)
(* Model of equivalence.py: the disjoint-set forest `Equivalence`, its     *)
(* `BidirectionalEquivalence` and `KeyEquivalence` subclasses and their    *)
(* combination `KeyBidirectionalEquivalence`.                              *)
(*                                                                         *)
(* Two instances built by equivalence(key, bidirectional=False/True) are   *)
(* driven side by side by the same calls: `eq` is the plain instance and  *)
(* `bi` the bidirectional one. Python dicts are functions whose DOMAIN is  *)
(* the set of keys present; None is 0; objects are 1..N.                   *)
(***************************************************************************)
EXTENDS Integers, Sequences, FiniteSets, TLC

\* keyed, keyfunc : the `key` argument of equivalence() (keyed = FALSE is key=None)
\* univ, arity    : the objects the caller uses and its longest argument list
\* eq, bi         : the instances built with bidirectional=False and =True
\* passed         : the objects passed so far to update or merge
VARIABLES keyed, keyfunc, univ, arity, eq, bi, passed

vars == <<keyed, keyfunc, univ, arity, eq, bi, passed>>

\* Number of objects callers use with the non-keyed variants.
N == 4
\* Longest argument list of update/merge/are_equivalent in the non-keyed runs.
MaxArity == 4
\* Number of objects (and keys) in the keyed runs.
NKey == 3
\* Longest argument list in the keyed runs.
MaxArityKey == 3
\* Number of objects and longest argument list in the wide non-keyed runs.
NWide == 5
MaxArityWide == 3

None == 0

\* ------------------------------------------------------------------------
\* Python dict helpers
\* ------------------------------------------------------------------------
EmptyDict == [x \in {} |-> None]

DictSet(d, k, v) == [x \in (DOMAIN d) \cup {k} |-> IF x = k THEN v ELSE d[x]]

\* defaultdict(set)[k].add(v)
DictAdd(d, k, v) ==
    [x \in (DOMAIN d) \cup {k} |->
        IF x = k THEN (IF k \in DOMAIN d THEN d[k] ELSE {}) \cup {v} ELSE d[x]]

\* dict.get(k, ())
DictGet(d, k) == IF k \in DOMAIN d THEN d[k] ELSE {}

\* Ascending enumeration of a set of integers (the iteration order of a
\* CPython 2 dict or set holding small integers).
RECURSIVE SetToSeq(_)
SetToSeq(S) ==
    IF S = {} THEN <<>>
    ELSE LET m == CHOOSE x \in S : \A y \in S : x <= y
         IN <<m>> \o SetToSeq(S \ {m})

\* ------------------------------------------------------------------------
\* Instances
\* ------------------------------------------------------------------------
\* Equivalence.__init__ / BidirectionalEquivalence.__init__ /
\* KeyEquivalence.__init__
NewInstance(bidirectional) ==
    [bidirectional   |-> bidirectional,
     child2parent    |-> EmptyDict,
     rank            |-> EmptyDict,
     parent2children |-> EmptyDict,
     key2objects     |-> EmptyDict]

\* Equivalence._join, overridden by BidirectionalEquivalence._join
Join(st, obj, parent) ==
    LET st1 == [st EXCEPT !.child2parent = DictSet(st.child2parent, obj, parent)]
    IN IF st.bidirectional /\ parent # None
       THEN [st1 EXCEPT !.parent2children = DictAdd(st.parent2children, parent, obj)]
       ELSE st1

\* The recursion of _find never changes the instance on its way down, so a
\* chain of more calls than there are objects repeats an argument and never
\* ends: CPython raises "maximum recursion depth exceeded" (a RuntimeError,
\* named RecursionError since Python 3.5; err = "RecursionError" here).
Fuel == Cardinality(univ) + 1

RECURSIVE Find(_, _, _, _), EqFind(_, _, _, _)
\* Equivalence._find(self, obj, insert_if_missing)
EqFind(st, obj, insert_if_missing, fuel) ==
    IF fuel = 0 THEN [st |-> st, ret |-> obj, err |-> "RecursionError"]
    ELSE IF obj \notin DOMAIN st.child2parent
    THEN IF insert_if_missing
         THEN LET st1 == Join(st, obj, None)
              IN [st |-> [st1 EXCEPT !.rank = DictSet(st1.rank, obj, 0)],
                  ret |-> obj, err |-> "ok"]
         ELSE [st |-> st, ret |-> obj, err |-> "ok"]
    ELSE LET parent == st.child2parent[obj]
         IN IF parent # None
            THEN LET r == Find(st, parent, FALSE, fuel - 1)
                 IN IF r.err # "ok" THEN r
                    ELSE [st |-> Join(r.st, obj, r.ret), ret |-> r.ret, err |-> "ok"]
            ELSE [st |-> st, ret |-> obj, err |-> "ok"]

\* self._find: KeyEquivalence._find in the keyed variants, else
\* Equivalence._find
Find(st, obj, insert_if_missing, fuel) ==
    IF keyed THEN EqFind(st, keyfunc[obj], insert_if_missing, fuel)
    ELSE EqFind(st, obj, insert_if_missing, fuel)

\* KeyEquivalence._update_key2objects: returns the keys of the objects
RECURSIVE UpdateKey2Objects(_, _)
UpdateKey2Objects(st, objects) ==
    IF objects = <<>> THEN [st |-> st, ret |-> <<>>]
    ELSE LET obj == Head(objects)
             st1 == [st EXCEPT !.key2objects = DictAdd(st.key2objects, keyfunc[obj], obj)]
             r   == UpdateKey2Objects(st1, Tail(objects))
         IN [st |-> r.st, ret |-> <<keyfunc[obj]>> \o r.ret]

\* Equivalence.update
RECURSIVE EqUpdate(_, _)
EqUpdate(st, objects) ==
    IF objects = <<>> THEN st
    ELSE LET obj == Head(objects)
             st1 == IF obj \notin DOMAIN st.child2parent
                    THEN LET j == Join(st, obj, None)
                         IN [j EXCEPT !.rank = DictSet(j.rank, obj, 0)]
                    ELSE st
         IN EqUpdate(st1, Tail(objects))

\* self.update: KeyEquivalence.update in the keyed variants
Update(st, objects) ==
    IF keyed
    THEN LET k == UpdateKey2Objects(st, objects)
         IN [st |-> EqUpdate(k.st, k.ret), ret |-> None, err |-> "ok"]
    ELSE [st |-> EqUpdate(st, objects), ret |-> None, err |-> "ok"]

\* The loop of Equivalence.merge: `root` is the local variable of that name
\* (it is not reassigned by the loop), `objects` the arguments still to fold.
RECURSIVE MergeLoop(_, _, _)
MergeLoop(st, root, objects) ==
    IF objects = <<>> THEN [st |-> st, ret |-> None, err |-> "ok"]
    ELSE LET f == Find(st, Head(objects), TRUE, Fuel)
         IN IF f.err # "ok" THEN [st |-> f.st, ret |-> None, err |-> f.err]
            ELSE LET root2 == f.ret
                     rank  == f.st.rank
                 IN IF root \notin DOMAIN rank \/ root2 \notin DOMAIN rank
                    THEN [st |-> f.st, ret |-> None, err |-> "KeyError"]
                    ELSE IF rank[root] > rank[root2]
                    THEN MergeLoop(Join(f.st, root2, root), root, Tail(objects))
                    ELSE IF rank[root] < rank[root2]
                    THEN MergeLoop(Join(f.st, root, root2), root, Tail(objects))
                    ELSE IF root # root2
                    THEN MergeLoop(
                            Join([f.st EXCEPT !.rank = DictSet(rank, root, rank[root] + 1)],
                                 root2, root),
                            root, Tail(objects))
                    ELSE MergeLoop(f.st, root, Tail(objects))

\* Equivalence.merge
EqMerge(st, objects) ==
    IF objects = <<>> THEN [st |-> st, ret |-> None, err |-> "ok"]
    ELSE LET f == Find(st, Head(objects), TRUE, Fuel)
         IN IF f.err # "ok" THEN [st |-> f.st, ret |-> None, err |-> f.err]
            ELSE MergeLoop(f.st, f.ret, Tail(objects))

\* self.merge: KeyEquivalence.merge in the keyed variants
Merge(st, objects) ==
    IF keyed THEN EqMerge(UpdateKey2Objects(st, objects).st, objects)
    ELSE EqMerge(st, objects)

\* The loop of Equivalence.are_equivalent over the arguments after the first
RECURSIVE AreEquivalentLoop(_, _, _)
AreEquivalentLoop(st, root, objects) ==
    IF objects = <<>> THEN [st |-> st, ret |-> TRUE, err |-> "ok"]
    ELSE LET f == Find(st, Head(objects), FALSE, Fuel)
         IN IF f.err # "ok" THEN [st |-> f.st, ret |-> FALSE, err |-> f.err]
            ELSE IF f.ret # root THEN [st |-> f.st, ret |-> FALSE, err |-> "ok"]
            ELSE AreEquivalentLoop(f.st, root, Tail(objects))

\* are_equivalent without its guard `if not objects: raise ValueError`, the
\* empty conjunction being true: the variant C13 is checked against
AreEquivalentUnguarded(st, objects) ==
    IF objects = <<>> THEN [st |-> st, ret |-> TRUE, err |-> "ok"]
    ELSE LET f == Find(st, Head(objects), FALSE, Fuel)
         IN IF f.err # "ok" THEN [st |-> f.st, ret |-> FALSE, err |-> f.err]
            ELSE AreEquivalentLoop(f.st, f.ret, Tail(objects))

\* Equivalence.are_equivalent
AreEquivalent(st, objects) ==
    IF objects = <<>> THEN [st |-> st, ret |-> FALSE, err |-> "ValueError"]
    ELSE LET f == Find(st, Head(objects), FALSE, Fuel)
         IN IF f.err # "ok" THEN [st |-> f.st, ret |-> FALSE, err |-> f.err]
            ELSE AreEquivalentLoop(f.st, f.ret, Tail(objects))

\* self._iter_objects: Equivalence._iter_objects, or
\* KeyEquivalence._iter_objects in the keyed variants
RECURSIVE IterBuckets(_, _)
IterBuckets(d, keys) ==
    IF keys = <<>> THEN <<>>
    ELSE SetToSeq(d[Head(keys)]) \o IterBuckets(d, Tail(keys))

IterObjects(st) ==
    IF keyed THEN IterBuckets(st.key2objects, SetToSeq(DOMAIN st.key2objects))
    ELSE SetToSeq(DOMAIN st.child2parent)

\* The loop of Equivalence.partitions; key2partition is the defaultdict(list)
RECURSIVE PartitionsLoop(_, _, _)
PartitionsLoop(st, key2partition, objects) ==
    IF objects = <<>> THEN [st |-> st, ret |-> key2partition, err |-> "ok"]
    ELSE LET obj == Head(objects)
             f   == Find(st, obj, FALSE, Fuel)
         IN IF f.err # "ok" THEN [st |-> f.st, ret |-> EmptyDict, err |-> f.err]
            ELSE PartitionsLoop(
                    f.st,
                    DictSet(key2partition, f.ret,
                            (IF f.ret \in DOMAIN key2partition
                             THEN key2partition[f.ret] ELSE <<>>) \o <<obj>>),
                    Tail(objects))

\* Equivalence.partitions(objects); the no-argument call is PartitionsAll.
\* The result lists the groups (key2partition.values()) by ascending root.
Partitions(st, objects) ==
    LET r    == PartitionsLoop(st, EmptyDict, objects)
        keys == SetToSeq(DOMAIN r.ret)
    IN [st |-> r.st, ret |-> [i \in 1..Len(keys) |-> r.ret[keys[i]]], err |-> r.err]

PartitionsAll(st) == Partitions(st, IterObjects(st))

\* The generator of Equivalence.partition: the tracked objects whose root is
\* `root`, `objects` being the keys of _child2parent still to visit.
RECURSIVE EqPartitionLoop(_, _, _, _)
EqPartitionLoop(st, root, objects, acc) ==
    IF objects = <<>> THEN [st |-> st, ret |-> acc, err |-> "ok"]
    ELSE LET obj == Head(objects)
             f   == Find(st, obj, FALSE, Fuel)
         IN IF f.err # "ok" THEN [st |-> f.st, ret |-> {}, err |-> f.err]
            ELSE EqPartitionLoop(f.st, root, Tail(objects),
                                 IF f.ret = root THEN acc \cup {obj} ELSE acc)

\* Equivalence.partition
EqPartition(st, obj) ==
    LET f == Find(st, obj, FALSE, Fuel)
    IN IF f.err # "ok" THEN [st |-> f.st, ret |-> {}, err |-> f.err]
       ELSE EqPartitionLoop(f.st, f.ret, SetToSeq(DOMAIN f.st.child2parent), {})

\* recurse() of BidirectionalEquivalence.partition: it keeps no visited set,
\* so a path of more nodes than there are objects never ends.
RECURSIVE Recurse(_, _, _)
Recurse(parent2children, node, fuel) ==
    IF fuel = 0 THEN [ret |-> {}, err |-> "RecursionError"]
    ELSE LET sub == [child \in DictGet(parent2children, node) |->
                        Recurse(parent2children, child, fuel - 1)]
         IN IF \E child \in DOMAIN sub : sub[child].err # "ok"
            THEN [ret |-> {}, err |-> "RecursionError"]
            ELSE [ret |-> {node} \cup UNION {sub[child].ret : child \in DOMAIN sub},
                  err |-> "ok"]

\* BidirectionalEquivalence.partition
BiPartition(st, obj) ==
    IF obj \in DOMAIN st.child2parent
    THEN LET f == Find(st, obj, FALSE, Fuel)
         IN IF f.err # "ok" THEN [st |-> f.st, ret |-> {}, err |-> f.err]
            ELSE LET r == Recurse(f.st.parent2children, f.ret, Fuel)
                 IN [st |-> f.st, ret |-> r.ret, err |-> r.err]
    ELSE [st |-> st, ret |-> {}, err |-> "ok"]

\* super(KeyEquivalence, self).partition, and self.partition of the
\* non-keyed variants
BasePartition(st, obj) ==
    IF st.bidirectional THEN BiPartition(st, obj) ELSE EqPartition(st, obj)

\* KeyEquivalence.partition
KeyPartition(st, obj) ==
    LET r == BasePartition(st, keyfunc[obj])
    IN IF r.err # "ok" THEN r
       ELSE [st |-> r.st,
             ret |-> UNION {DictGet(r.st.key2objects, key) : key \in r.ret},
             err |-> "ok"]

\* self.partition
Partition(st, obj) ==
    IF keyed THEN KeyPartition(st, obj) ELSE BasePartition(st, obj)

\* ------------------------------------------------------------------------
\* Calls: the same call is made on both instances
\* ------------------------------------------------------------------------
\* Argument lists of length lo..hi over the objects passed to update and merge
ArgSeqs(lo, hi) == UNION {[1..n -> univ] : n \in lo..hi}

\* The objects the queries are asked about: with the non-keyed variants one
\* more object, which is never passed to update or merge (unknown_url of the
\* tests); with a key function some key is unseen until all objects are in.
Probes == IF keyed THEN univ ELSE univ \cup {Cardinality(univ) + 1}

\* Argument lists of length lo..hi of the queries
ProbeSeqs(lo, hi) == UNION {[1..n -> Probes] : n \in lo..hi}

Range(objects) == {objects[i] : i \in 1..Len(objects)}

CallUpdate ==
    \E objects \in ArgSeqs(0, 2) :
        /\ eq' = Update(eq, objects).st
        /\ bi' = Update(bi, objects).st
        /\ passed' = passed \cup Range(objects)
        /\ UNCHANGED <<keyed, keyfunc, univ, arity>>

CallMerge ==
    \E objects \in ArgSeqs(0, arity) :
        /\ eq' = Merge(eq, objects).st
        /\ bi' = Merge(bi, objects).st
        /\ passed' = passed \cup Range(objects)
        /\ UNCHANGED <<keyed, keyfunc, univ, arity>>

CallAreEquivalent ==
    \E objects \in ProbeSeqs(0, 2) :
        /\ eq' = AreEquivalent(eq, objects).st
        /\ bi' = AreEquivalent(bi, objects).st
        /\ UNCHANGED <<keyed, keyfunc, univ, arity, passed>>

CallPartition ==
    \E obj \in Probes :
        /\ eq' = Partition(eq, obj).st
        /\ bi' = Partition(bi, obj).st
        /\ UNCHANGED <<keyed, keyfunc, univ, arity, passed>>

CallPartitions ==
    \/ /\ eq' = PartitionsAll(eq).st
       /\ bi' = PartitionsAll(bi).st
       /\ UNCHANGED <<keyed, keyfunc, univ, arity, passed>>
    \/ \E objects \in ProbeSeqs(0, 2) :
        /\ eq' = Partitions(eq, objects).st
        /\ bi' = Partitions(bi, objects).st
        /\ UNCHANGED <<keyed, keyfunc, univ, arity, passed>>

\* equivalence(key=None, bidirectional=False) and
\* equivalence(key=None, bidirectional=True)
InitPlain ==
    /\ keyed = FALSE
    /\ keyfunc = EmptyDict
    /\ univ = 1..N
    /\ arity = MaxArity
    /\ eq = NewInstance(FALSE)
    /\ bi = NewInstance(TRUE)
    /\ passed = {}

\* The same two instances, used with more objects
InitWide ==
    /\ keyed = FALSE
    /\ keyfunc = EmptyDict
    /\ univ = 1..NWide
    /\ arity = MaxArityWide
    /\ eq = NewInstance(FALSE)
    /\ bi = NewInstance(TRUE)
    /\ passed = {}

\* equivalence(key=k, bidirectional=False) and
\* equivalence(key=k, bidirectional=True), k any function on the objects
InitKeyed ==
    /\ keyed = TRUE
    /\ keyfunc \in [1..NKey -> 1..NKey]
    /\ univ = 1..NKey
    /\ arity = MaxArityKey
    /\ eq = NewInstance(FALSE)
    /\ bi = NewInstance(TRUE)
    /\ passed = {}

Init == InitPlain \/ InitKeyed

Next ==
    \/ CallUpdate
    \/ CallMerge
    \/ CallAreEquivalent
    \/ CallPartition
    \/ CallPartitions

\* All four variants
Spec == Init /\ [][Next]_vars
\* Equivalence and BidirectionalEquivalence
SpecPlain == InitPlain /\ [][Next]_vars
\* Equivalence and BidirectionalEquivalence over NWide objects
SpecWide == InitWide /\ [][Next]_vars
\* KeyEquivalence and KeyBidirectionalEquivalence
SpecKeyed == InitKeyed /\ [][Next]_vars

\* ------------------------------------------------------------------------
\* Properties
\* ------------------------------------------------------------------------
\* The two instances under test
Instances == {eq, bi}

\* obj is in the relation: a key of _child2parent or, in the keyed variants,
\* a member of the bucket of its key
TrackedIn(st, obj) ==
    IF keyed THEN obj \in DictGet(st.key2objects, keyfunc[obj])
    ELSE obj \in DOMAIN st.child2parent

\* are_equivalent(*objects) returns True
Equiv(st, objects) ==
    LET r == AreEquivalent(st, objects) IN r.err = "ok" /\ r.ret

\* What are_equivalent(x, y) does: "True", "False" or the exception raised
Outcome(st, x, y) ==
    LET r == AreEquivalent(st, <<x, y>>)
    IN IF r.err # "ok" THEN r.err ELSE IF r.ret THEN "True" ELSE "False"

\* The tracked objects and, for every pair of objects, the outcome of
\* are_equivalent: the partition into equivalence classes
Classes(st) ==
    [tracked |-> {x \in univ : TrackedIn(st, x)},
     related |-> [x \in univ |-> [y \in univ |-> Outcome(st, x, y)]]]

\* C1: when merge(o1,...,on), n >= 1, returns, all of o1..on are tracked and
\* are_equivalent(o1,...,on) is true.
C1_MergeJoinsArguments ==
    \A st \in Instances : \A objects \in ArgSeqs(1, arity) :
        LET m == Merge(st, objects)
        IN m.err = "ok" =>
              /\ \A i \in 1..Len(objects) : TrackedIn(m.st, objects[i])
              /\ Equiv(m.st, objects)

Permutations3(a, b, c) ==
    {<<a, b, c>>, <<a, c, b>>, <<b, a, c>>, <<b, c, a>>, <<c, a, b>>, <<c, b, a>>}

\* C2: from every reachable state, merge(a,b,c) and merge(x,y,z), for (x,y,z)
\* a permutation of (a,b,c), yield the same partition of the tracked objects
\* into equivalence classes. (Every order is compared with the ascending one.)
C2_MergeOrderIndependent ==
    \A st \in Instances : \A a \in univ, b \in univ, c \in univ :
        (a <= b /\ b <= c) =>
            LET classes == Classes(Merge(st, <<a, b, c>>).st)
            IN \A p \in Permutations3(a, b, c) : Classes(Merge(st, p).st) = classes

\* C3: after merge(a,b) followed by merge(b,c), are_equivalent(a,c) and
\* are_equivalent(c,a) both hold, whether or not a, b, c were tracked before.
C3_MergeTransitive ==
    \A st \in Instances : \A a \in univ, b \in univ, c \in univ :
        LET m1 == Merge(st, <<a, b>>)
            m2 == Merge(m1.st, <<b, c>>)
            q1 == AreEquivalent(m2.st, <<a, c>>)
            q2 == AreEquivalent(q1.st, <<c, a>>)
        IN /\ m1.err = "ok" /\ m2.err = "ok"
           /\ q1.err = "ok" /\ q1.ret
           /\ q2.err = "ok" /\ q2.ret

\* What a call did, as the caller sees it: the value returned, or the
\* exception raised
Result(r) == [ret |-> r.ret, err |-> r.err]

\* C4: driven side by side by the same calls, BidirectionalEquivalence
\* .partition(x) gives, for every object x, exactly what
\* Equivalence.partition(x) gives.
C4_FastPartitionSame ==
    \A x \in Probes : Result(Partition(bi, x)) = Result(Partition(eq, x))

\* C5: for an object x passed to update or merge, partition(x) is exactly the
\* set of such objects y for which are_equivalent(x,y) is true.
C5_PartitionIsClass ==
    \A st \in Instances : \A x \in passed :
        LET p == Partition(st, x)
        IN /\ p.err = "ok"
           /\ p.ret = {y \in passed : Equiv(st, <<x, y>>)}

\* C6: partition(x) for an object x never passed to update or merge returns
\* the empty set, and the call does not make x tracked.
C6_PartitionOfUnknownEmpty ==
    \A st \in Instances : \A x \in Probes \ passed :
        LET p == Partition(st, x)
        IN /\ p.err = "ok"
           /\ p.ret = {}
           /\ ~TrackedIn(p.st, x)
           /\ x \notin DOMAIN p.st.child2parent \/ keyed

\* C7: in the keyed variants are_equivalent(a,b) is true for all objects a, b
\* with key(a) = key(b), inserted or not.
C7_SameKeyEquivalent ==
    keyed =>
        \A st \in Instances : \A a \in univ, b \in univ :
            keyfunc[a] = keyfunc[b] => Equiv(st, <<a, b>>)

\* One read-only call: are_equivalent(x,y), partition(x) or partitions()
Queries == {<<"are_equivalent", x, y>> : x \in Probes, y \in Probes}
           \cup {<<"partition", x, x>> : x \in Probes}
           \cup {<<"partitions", None, None>>}

AfterQuery(st, q) ==
    IF q[1] = "are_equivalent" THEN AreEquivalent(st, <<q[2], q[3]>>).st
    ELSE IF q[1] = "partition" THEN Partition(st, q[2]).st
    ELSE PartitionsAll(st).st

\* C8: in the keyed variants, after merge(a,b) with key(a) # key(b),
\* are_equivalent(a,b) is true, and it is still true when asked again after
\* an intervening are_equivalent, partition or partitions call.
C8_MergeAcrossKeys ==
    keyed =>
        \A st \in Instances : \A a \in univ, b \in univ :
            keyfunc[a] # keyfunc[b] =>
                LET m == Merge(st, <<a, b>>)
                    q == AreEquivalent(m.st, <<a, b>>)
                IN /\ m.err = "ok"
                   /\ q.err = "ok" /\ q.ret
                   /\ \A c \in Queries : Equiv(AfterQuery(q.st, c), <<a, b>>)

\* Number of times x occurs in the groups
Count(groups, x) ==
    Cardinality({ij \in (DOMAIN groups) \X (1..Cardinality(Probes)) :
                    /\ ij[2] \in DOMAIN groups[ij[1]]
                    /\ groups[ij[1]][ij[2]] = x})

SameGroup(groups, x, y) ==
    \E i \in DOMAIN groups : x \in Range(groups[i]) /\ y \in Range(groups[i])

\* C9: partitions() returns groups in which every object passed to update or
\* merge occurs exactly once and no other object occurs, no group is empty,
\* and two such objects share a group iff they are equivalent.
C9_PartitionsCover ==
    \A st \in Instances :
        LET r == PartitionsAll(st)
        IN /\ r.err = "ok"
           /\ \A x \in passed : Count(r.ret, x) = 1
           /\ \A x \in Probes \ passed : Count(r.ret, x) = 0
           /\ \A i \in DOMAIN r.ret : r.ret[i] # <<>>
           /\ \A x \in passed, y \in passed :
                 SameGroup(r.ret, x, y) <=> Equiv(st, <<x, y>>)

\* Number of times x occurs in the sequence
Occurrences(objects, x) == Cardinality({i \in DOMAIN objects : objects[i] = x})

\* The entries of `objects` that are in S, in the order of `objects`
RECURSIVE Restrict(_, _)
Restrict(objects, S) ==
    IF objects = <<>> THEN <<>>
    ELSE (IF Head(objects) \in S THEN <<Head(objects)>> ELSE <<>>)
         \o Restrict(Tail(objects), S)

\* C10: partitions(objs) returns groups that hold every entry of objs as many
\* times as objs does, each group in input order, two entries sharing a group
\* iff are_equivalent holds for them.
C10_PartitionsOfSequence ==
    \A st \in Instances : \A objects \in ProbeSeqs(0, 3) :
        LET r == Partitions(st, objects)
        IN /\ r.err = "ok"
           /\ \A x \in Probes :
                 Occurrences(objects, x) =
                    Cardinality({ij \in (DOMAIN r.ret) \X (1..Len(objects)) :
                                    /\ ij[2] \in DOMAIN r.ret[ij[1]]
                                    /\ r.ret[ij[1]][ij[2]] = x})
           /\ \A i \in DOMAIN r.ret :
                 r.ret[i] = Restrict(objects, Range(r.ret[i]))
           /\ \A x \in Range(objects), y \in Range(objects) :
                 SameGroup(r.ret, x, y) <=> Equiv(st, <<x, y>>)

\* C11: are_equivalent(x,x) is true for every object x, passed to update or
\* merge or not; and without a key function are_equivalent(x,y) is false for
\* two distinct objects x, y never passed to update or merge.
C11_Reflexive ==
    \A st \in Instances :
        /\ \A x \in Probes : Equiv(st, <<x, x>>)
        /\ ~keyed =>
              \A x \in Probes \ passed, y \in Probes \ passed :
                  x # y => Outcome(st, x, y) = "False"

\* C12: update(x) on a tracked x leaves _child2parent, _rank,
\* _parent2children and _key2objects as they were; update(x); update(x)
\* leaves what one update(x) leaves; and no update call changes what
\* are_equivalent answers for two objects that were tracked before it.
C12_UpdateIdempotent ==
    \A st \in Instances :
        /\ \A x \in univ :
              /\ TrackedIn(st, x) => Update(st, <<x>>).st = st
              /\ LET once == Update(st, <<x>>).st
                 IN Update(once, <<x>>).st = once
        /\ \A objects \in ArgSeqs(0, 2) :
              LET after == Update(st, objects).st
              IN \A a \in univ, b \in univ :
                    TrackedIn(st, a) /\ TrackedIn(st, b) =>
                        Outcome(after, a, b) = Outcome(st, a, b)

\* C13: are_equivalent() with no objects raises ValueError and merge() with
\* no objects returns normally; neither changes anything in the instance.
C13_ZeroArguments ==
    \A st \in Instances :
        LET q == AreEquivalent(st, <<>>)
            m == Merge(st, <<>>)
        IN /\ q.err = "ValueError" /\ q.st = st
           /\ m.err = "ok" /\ m.st = st

\* Both zero-argument calls made on a relation that holds a merged class
C13_Witness ==
    /\ \E x \in DOMAIN bi.child2parent : bi.child2parent[x] # None
    /\ AreEquivalent(bi, <<>>).err = "ValueError"
    /\ Merge(bi, <<>>) = [st |-> bi, ret |-> None, err |-> "ok"]

\* The root that `hops` parent links or fewer lead to from node x, or None
\* when they lead out of the map or to no root
RECURSIVE RootWithin(_, _, _)
RootWithin(child2parent, x, hops) ==
    IF x \notin DOMAIN child2parent THEN None
    ELSE IF child2parent[x] = None THEN x
    ELSE IF hops = 0 THEN None
    ELSE RootWithin(child2parent, child2parent[x], hops - 1)

\* C14: _child2parent is a forest: every parent that is not None is itself a
\* key of the map, and from every key the parent links lead, without
\* repeating a node, to a root (a key whose parent is None).
C14_Forest ==
    \A st \in Instances : \A x \in DOMAIN st.child2parent :
        /\ st.child2parent[x] # None => st.child2parent[x] \in DOMAIN st.child2parent
        /\ RootWithin(st.child2parent, x, Cardinality(DOMAIN st.child2parent)) # None

\* C15: no call recurses without end: merge, are_equivalent, partition and
\* partitions, made in any reachable state with any arguments, never end in
\* "maximum recursion depth exceeded", neither in _find nor in the traversal
\* of BidirectionalEquivalence.partition.
C15_Terminates ==
    \A st \in Instances :
        /\ \A objects \in ArgSeqs(1, 2) : Merge(st, objects).err # "RecursionError"
        /\ \A objects \in ProbeSeqs(1, 2) :
              /\ AreEquivalent(st, objects).err # "RecursionError"
              /\ Partitions(st, objects).err # "RecursionError"
        /\ \A x \in Probes : Partition(st, x).err # "RecursionError"
        /\ PartitionsAll(st).err # "RecursionError"

\* The nodes a bidirectional instance mentions, as child or as parent
Nodes(st) == DOMAIN st.child2parent \cup DOMAIN st.parent2children

\* C16: in the bidirectional instance _parent2children is exactly the inverse
\* of _child2parent: c is in _parent2children[p] iff _child2parent[c] = p.
C16_ChildrenInverse ==
    \A p \in Nodes(bi), c \in Nodes(bi) :
        c \in DictGet(bi.parent2children, p)
            <=> (c \in DOMAIN bi.child2parent /\ bi.child2parent[c] = p)

\* x is a root: a key of _child2parent whose parent is None
IsRoot(st, x) == x \in DOMAIN st.child2parent /\ st.child2parent[x] = None

\* C17: at every step of the loop of merge(o1,...,on), when the ranks of
\* `root` and `root2` are compared, both are roots. (`first` is the find of
\* o1, `done` the loop over o2..o(k-1), `next` the find of ok; find reads
\* nothing of _key2objects, so the keyed merge folds the same way.)
C17_FoldOnRoots ==
    \A st \in Instances : \A objects \in ArgSeqs(2, arity) :
        \A k \in 2..Len(objects) :
            LET first == Find(st, objects[1], TRUE, Fuel)
                done  == IF first.err = "ok"
                         THEN MergeLoop(first.st, first.ret, SubSeq(objects, 2, k - 1))
                         ELSE first
                next  == Find(done.st, objects[k], TRUE, Fuel)
            IN (first.err = "ok" /\ done.err = "ok" /\ next.err = "ok") =>
                  /\ IsRoot(next.st, first.ret)
                  /\ IsRoot(next.st, next.ret)

\* What the query q returns or raises
QueryResult(st, q) ==
    IF q[1] = "are_equivalent" THEN Result(AreEquivalent(st, <<q[2], q[3]>>))
    ELSE IF q[1] = "partition" THEN Result(Partition(st, q[2]))
    ELSE Result(PartitionsAll(st))

\* C18: an are_equivalent, partition or partitions call leaves the keys of
\* _child2parent, the ranks of the roots and _key2objects as they were, and
\* every query answers after it what it answered before it.
C18_QueriesReadOnly ==
    \A st \in Instances : \A q \in Queries :
        LET after == AfterQuery(st, q)
        IN /\ DOMAIN after.child2parent = DOMAIN st.child2parent
           /\ DOMAIN after.rank = DOMAIN st.rank
           /\ \A x \in DOMAIN st.rank : IsRoot(st, x) => after.rank[x] = st.rank[x]
           /\ after.key2objects = st.key2objects
           /\ \A c \in Queries : QueryResult(after, c) = QueryResult(st, c)

\* The keys of the objects passed so far to update or merge
KeysSeen == {keyfunc[o] : o \in passed}

\* C19: with a key function, the keys of _child2parent are exactly the keys
\* of the objects passed to update or merge, and so are the keys of
\* _key2objects; every such object is in the bucket of its key and in no
\* other, and the buckets hold nothing else.
C19_KeyedUniverse ==
    keyed =>
        \A st \in Instances :
            /\ DOMAIN st.child2parent = KeysSeen
            /\ DOMAIN st.key2objects = KeysSeen
            /\ \A k \in DOMAIN st.key2objects :
                  st.key2objects[k] = {o \in passed : keyfunc[o] = k}

\* The pairs of tracked objects for which are_equivalent is true
Held(st) ==
    {ab \in univ \X univ :
        /\ TrackedIn(st, ab[1]) /\ TrackedIn(st, ab[2])
        /\ Equiv(st, <<ab[1], ab[2]>>)}

\* are_equivalent is still true in `after` for all the pairs `held`
Kept(held, after) == \A ab \in held : Equiv(after, <<ab[1], ab[2]>>)

\* C20: no call splits a class: whatever update, merge, are_equivalent,
\* partition or partitions call is made next, with whatever arguments,
\* are_equivalent(a,b) stays true for all tracked a, b for which it is true.
C20_NeverLost ==
    \A st \in Instances :
        LET held == Held(st)
        IN /\ \A objects \in ArgSeqs(0, arity) : Kept(held, Merge(st, objects).st)
           /\ \A objects \in ArgSeqs(0, 2) : Kept(held, Update(st, objects).st)
           /\ \A q \in Queries : Kept(held, AfterQuery(st, q))

====
